---- MODULE Spec2Model ----
(***************************************************************************)
(* A model of slimta.app: the component graph builder of                   *)
(* slimta/app/state.py (SlimtaState) and the rule, validator, policy and   *)
(* backoff helpers of slimta/app/helpers.py.                               *)
(*                                                                         *)
(* Python values are modelled as records tagged by their class ("cls"),    *)
(* an optional value as a sequence of length at most one, and a raised     *)
(* exception as a one-element sequence holding the exception.              *)
(*                                                                         *)
(* The toolkit classes the code instantiates (MxSmtpRelay, CeleryQueue,    *)
(* SmtpEdge, ...) are external: their constructors and SmtpEdge.start()    *)
(* are taken to return normally.  Every relay, queue and edge name has a   *)
(* section, and every section carries the attributes the code reads        *)
(* without a default: type (start_celery_queues reads options.type of      *)
(* every queue section, so the 'default' that _start_queue supplies for a  *)
(* missing type is the type "default" here) and, for an edge, listeners,   *)
(* whose first entry leaves interface and port at their defaults.          *)
(***************************************************************************)
EXTENDS Integers, Sequences, FiniteSets, TLC

\* A SlimtaState object, its configuration and the latest call on it.
VARIABLES cfg, relays, queues, edges, celery, history, last

\* A rules section, the RuleHelpers object built from it and the latest query.
VARIABLES rules, helpers, query

\* A retry section, the function build_backoff_function returned for it and
\* the latest call of that function.
VARIABLES retry, backoff_func, attempt

\* A policy list, the queue add_queue_policies is called on and the outcome of
\* the call.
VARIABLES policy_section, policy_queue, composed

\* The latest call of a handler of the validators built for the rules section,
\* and an earlier one.
VARIABLES handled, memo

graphVars == <<cfg, relays, queues, edges, celery, history, last>>

ruleVars == <<rules, helpers, query>>

backoffVars == <<retry, backoff_func, attempt>>

policyVars == <<policy_section, policy_queue, composed>>

validatorVars == <<handled, memo>>

vars == <<graphVars, ruleVars, backoffVars, policyVars, validatorVars>>

(***************************************************************************)
(* The sections of the configuration tree.                                 *)
(***************************************************************************)
\* The number of edge sections; they are named "1", "2", ...
NumEdges == 2

\* The names of the relay and queue sections.
RelayNames == {"outbound"}
QueueNames == {"inbound", "outbound"}
EdgeNames == {ToString(i) : i \in 1..NumEdges}

(***************************************************************************)
(* Python values.                                                          *)
(***************************************************************************)
None == [cls |-> "NoneType"]

NoExc == <<>>

ConfigError(text, arg) == <<[cls |-> "ConfigError", msg |-> <<text, arg>>]>>

\* An int, and a str that is the decimal text of one, by its characters.
PyInt(n) == [cls |-> "int", v |-> n]

PyStr(text) == [cls |-> "str", text |-> text]

Digits == <<"0", "1", "2", "3", "4", "5", "6", "7", "8", "9">>

DigitValue(c) == (CHOOSE i \in DOMAIN Digits : Digits[i] = c) - 1

RECURSIVE ParseDecimal(_)
ParseDecimal(text) ==
    IF text = <<>>
    THEN 0
    ELSE 10 * ParseDecimal(SubSeq(text, 1, Len(text) - 1)) + DigitValue(text[Len(text)])

RECURSIVE Decimal(_)
Decimal(n) ==
    IF n < 10 THEN <<Digits[n + 1]>> ELSE Append(Decimal(n \div 10), Digits[(n % 10) + 1])

\* int(value)
int(value) ==
    IF value.cls = "int" THEN value.v ELSE ParseDecimal(value.text)

\* dict[name] = value
Put(map, name, value) ==
    [n \in (DOMAIN map) \cup {name} |-> IF n = name THEN value ELSE map[n]]

EmptyDict == [n \in {} |-> None]

\* The orders in which iterating a dict can yield the keys.
Orders(keys) ==
    {o \in [1..Cardinality(keys) -> keys] : \A i, j \in DOMAIN o : i # j => o[i] # o[j]}

(***************************************************************************)
(* The configuration tree: sections relay.<name>, queue.<name> and         *)
(* edge.<name>.                                                            *)
(***************************************************************************)
RelayTypes == {"mx", "static", "maildrop", "pipe"}
QueueTypes == {"default", "celery", "memory"}
EdgeTypes == {"smtp", "wsgi"}

RelaySections == [type : RelayTypes]

QueueSections ==
    [type : QueueTypes \ {"celery"}, relay : {<<>>}]
        \cup [type : {"celery"}, relay : {<<>>} \cup {<<r>> : r \in RelayNames}]

EdgeSections ==
    [type : EdgeTypes \ {"smtp"}, queue : {<<>>}]
        \cup [type : {"smtp"}, queue : {<<>>} \cup {<<q>> : q \in QueueNames}]

Configs ==
    [relay : [RelayNames -> RelaySections],
     queue : [QueueNames -> QueueSections],
     edge : [EdgeNames -> EdgeSections]]

\* The options argument left at its default (options=None).
NoOptions == <<>>

DefaultInterface == "127.0.0.1"
DefaultPort == 25

(***************************************************************************)
(* SlimtaState.  A state of the object is the record of its fields; every  *)
(* method is an operator from the state before the call to the outcome     *)
(* [st, ret, exc]: the state after it, the value returned and the          *)
(* exception raised, if any.  history lists the external calls made, in    *)
(* order, with the assignments to the registries.                          *)
(***************************************************************************)
Self == [relays |-> relays, queues |-> queues, edges |-> edges,
         celery |-> celery, history |-> history]

Event(ev, kind, name) == [ev |-> ev, kind |-> kind, name |-> name]

Log(st, ev, kind, name) ==
    [st EXCEPT !.history = Append(@, Event(ev, kind, name))]

Return(st, value) == [st |-> st, ret |-> value, exc |-> NoExc]

Raise(st, exc) == [st |-> st, ret |-> None, exc |-> exc]

RelayClass(type) ==
    CASE type = "mx" -> "MxSmtpRelay"
      [] type = "static" -> "StaticSmtpRelay"
      [] type = "maildrop" -> "MaildropRelay"

\* _start_relay without the lookup in self.relays.
_start_relay_unmemoized(st, name, opts) ==
    LET options == IF opts = NoOptions THEN cfg.relay[name] ELSE opts[1] IN
    IF options.type \in {"mx", "static", "maildrop"}
    THEN LET new_relay == [cls |-> RelayClass(options.type),
                           id |-> Len(st.history) + 1]
             st1 == Log(st, "construct", "relay", name)
             st2 == [st1 EXCEPT !.relays = Put(@, name, new_relay)]
         IN Return(Log(st2, "register", "relay", name), new_relay)
    ELSE Raise(st, ConfigError("relay type does not exist: ", options.type))

_start_relay(st, name, opts) ==
    IF name \in DOMAIN st.relays
    THEN Return(st, st.relays[name])
    ELSE LET options == IF opts = NoOptions THEN cfg.relay[name] ELSE opts[1] IN
         IF options.type \in {"mx", "static", "maildrop"}
         THEN LET new_relay == [cls |-> RelayClass(options.type),
                                id |-> Len(st.history) + 1]
                  st1 == Log(st, "construct", "relay", name)
                  st2 == [st1 EXCEPT !.relays = Put(@, name, new_relay)]
              IN Return(Log(st2, "register", "relay", name), new_relay)
         ELSE Raise(st, ConfigError("relay type does not exist: ", options.type))

\* The celery property: the application object is created on first use.
celery_property(st) ==
    IF st.celery = None
    THEN [st EXCEPT !.celery = [cls |-> "Celery"]]
    ELSE st

\* _start_queue storing the placeholder under the name before it builds the
\* queue.
_start_queue_placeholder_first(st, name, opts) ==
    IF name \in DOMAIN st.queues
    THEN Return(st, st.queues[name])
    ELSE LET options == IF opts = NoOptions THEN cfg.queue[name] ELSE opts[1]
             st0 == [st EXCEPT !.queues = Put(@, name, None)]
         IN
         IF options.type = "default"
         THEN Return(Log(st0, "register", "queue", name), None)
         ELSE IF options.type = "celery"
         THEN LET relay_name == options.relay IN
              IF relay_name = <<>>
              THEN Raise(st0, ConfigError("queue sections must be given a relay name", ""))
              ELSE LET r == _start_relay(st0, relay_name[1], NoOptions) IN
                   IF r.exc # NoExc
                   THEN r
                   ELSE LET st1 == celery_property(r.st)
                            new_queue == [cls |-> "CeleryQueue",
                                          id |-> Len(st1.history) + 1,
                                          celery |-> st1.celery,
                                          relay |-> r.ret,
                                          name |-> name]
                            st2 == Log(st1, "construct", "queue", name)
                            st3 == [st2 EXCEPT !.queues = Put(@, name, new_queue)]
                        IN Return(Log(st3, "register", "queue", name), new_queue)
         ELSE Raise(st0, ConfigError("queue type does not exist: ", options.type))

\* _start_queue without the lookup in self.queues.
_start_queue_unmemoized(st, name, opts) ==
    LET options == IF opts = NoOptions THEN cfg.queue[name] ELSE opts[1] IN
    IF options.type = "default"
    THEN LET st1 == [st EXCEPT !.queues = Put(@, name, None)]
         IN Return(Log(st1, "register", "queue", name), None)
    ELSE IF options.type = "celery"
    THEN LET relay_name == options.relay IN
         IF relay_name = <<>>
         THEN Raise(st, ConfigError("queue sections must be given a relay name", ""))
         ELSE LET r == _start_relay(st, relay_name[1], NoOptions) IN
              IF r.exc # NoExc
              THEN r
              ELSE LET st1 == celery_property(r.st)
                       new_queue == [cls |-> "CeleryQueue",
                                     id |-> Len(st1.history) + 1,
                                     celery |-> st1.celery,
                                     relay |-> r.ret,
                                     name |-> name]
                       st2 == Log(st1, "construct", "queue", name)
                       st3 == [st2 EXCEPT !.queues = Put(@, name, new_queue)]
                   IN Return(Log(st3, "register", "queue", name), new_queue)
    ELSE Raise(st, ConfigError("queue type does not exist: ", options.type))

_start_queue(st, name, opts) ==
    IF name \in DOMAIN st.queues
    THEN Return(st, st.queues[name])
    ELSE LET options == IF opts = NoOptions THEN cfg.queue[name] ELSE opts[1] IN
         IF options.type = "default"
         THEN LET st1 == [st EXCEPT !.queues = Put(@, name, None)]
              IN Return(Log(st1, "register", "queue", name), None)
         ELSE IF options.type = "celery"
         THEN LET relay_name == options.relay IN
              IF relay_name = <<>>
              THEN Raise(st, ConfigError("queue sections must be given a relay name", ""))
              ELSE LET r == _start_relay(st, relay_name[1], NoOptions) IN
                   IF r.exc # NoExc
                   THEN r
                   ELSE LET st1 == celery_property(r.st)
                            new_queue == [cls |-> "CeleryQueue",
                                          id |-> Len(st1.history) + 1,
                                          celery |-> st1.celery,
                                          relay |-> r.ret,
                                          name |-> name]
                            st2 == Log(st1, "construct", "queue", name)
                            st3 == [st2 EXCEPT !.queues = Put(@, name, new_queue)]
                        IN Return(Log(st3, "register", "queue", name), new_queue)
         ELSE Raise(st, ConfigError("queue type does not exist: ", options.type))

RECURSIVE start_celery_queues_loop(_, _)
start_celery_queues_loop(st, items) ==
    IF items = <<>>
    THEN Return(st, None)
    ELSE LET name == Head(items)
             options == cfg.queue[name]
         IN IF options.type = "celery"
            THEN LET r == _start_queue(st, name, <<options>>) IN
                 IF r.exc # NoExc
                 THEN Raise(r.st, r.exc)
                 ELSE start_celery_queues_loop(r.st, Tail(items))
            ELSE start_celery_queues_loop(st, Tail(items))

\* items: the order in which dict(self.cfg.queue).items() yields the names.
start_celery_queues(st, items) == start_celery_queues_loop(st, items)

\* _start_edge building an edge that names no queue on the default queue.
_start_edge_queue_optional(st, name, opts) ==
    IF name \in DOMAIN st.edges
    THEN Return(st, st.edges[name])
    ELSE LET options == IF opts = NoOptions THEN cfg.edge[name] ELSE opts[1] IN
         IF options.type = "smtp"
         THEN LET queue_name == options.queue
                  r == IF queue_name = <<>>
                       THEN Return(st, None)
                       ELSE _start_queue(st, queue_name[1], NoOptions)
              IN IF r.exc # NoExc
                 THEN r
                 ELSE LET new_edge == [cls |-> "SmtpEdge",
                                       id |-> Len(r.st.history) + 1,
                                       address |-> <<DefaultInterface, int(PyInt(DefaultPort))>>,
                                       queue |-> r.ret,
                                       started |-> TRUE]
                          st1 == Log(r.st, "construct", "edge", name)
                          st2 == Log(st1, "start", "edge", name)
                          st3 == [st2 EXCEPT !.edges = Put(@, name, new_edge)]
                      IN Return(Log(st3, "register", "edge", name), new_edge)
         ELSE Raise(st, ConfigError("edge type does not exist: ", options.type))

\* _start_edge constructing and starting the edge before it obtains the queue.
_start_edge_queue_last(st, name, opts) ==
    IF name \in DOMAIN st.edges
    THEN Return(st, st.edges[name])
    ELSE LET options == IF opts = NoOptions THEN cfg.edge[name] ELSE opts[1] IN
         IF options.type = "smtp"
         THEN LET queue_name == options.queue IN
              IF queue_name = <<>>
              THEN Raise(st, ConfigError("edge sections must be given a queue name", ""))
              ELSE LET st1 == Log(st, "construct", "edge", name)
                       st2 == Log(st1, "start", "edge", name)
                       r == _start_queue(st2, queue_name[1], NoOptions)
                   IN IF r.exc # NoExc
                      THEN r
                      ELSE LET new_edge == [cls |-> "SmtpEdge",
                                            id |-> Len(st.history) + 1,
                                            address |-> <<DefaultInterface, int(PyInt(DefaultPort))>>,
                                            queue |-> r.ret,
                                            started |-> TRUE]
                               st3 == [r.st EXCEPT !.edges = Put(@, name, new_edge)]
                           IN Return(Log(st3, "register", "edge", name), new_edge)
         ELSE Raise(st, ConfigError("edge type does not exist: ", options.type))

_start_edge(st, name, opts) ==
    IF name \in DOMAIN st.edges
    THEN Return(st, st.edges[name])
    ELSE LET options == IF opts = NoOptions THEN cfg.edge[name] ELSE opts[1] IN
         IF options.type = "smtp"
         THEN LET queue_name == options.queue IN
              IF queue_name = <<>>
              THEN Raise(st, ConfigError("edge sections must be given a queue name", ""))
              ELSE LET r == _start_queue(st, queue_name[1], NoOptions) IN
                   IF r.exc # NoExc
                   THEN r
                   ELSE LET constructed == [cls |-> "SmtpEdge",
                                            id |-> Len(r.st.history) + 1,
                                            address |-> <<DefaultInterface, int(PyInt(DefaultPort))>>,
                                            queue |-> r.ret,
                                            started |-> FALSE]
                            st1 == Log(r.st, "construct", "edge", name)
                            new_edge == [constructed EXCEPT !.started = TRUE]
                            st2 == Log(st1, "start", "edge", name)
                            st3 == [st2 EXCEPT !.edges = Put(@, name, new_edge)]
                        IN Return(Log(st3, "register", "edge", name), new_edge)
         ELSE Raise(st, ConfigError("edge type does not exist: ", options.type))

RECURSIVE start_edges_loop(_, _)
start_edges_loop(st, items) ==
    IF items = <<>>
    THEN Return(st, None)
    ELSE LET name == Head(items)
             r == _start_edge(st, name, <<cfg.edge[name]>>)
         IN IF r.exc # NoExc
            THEN Raise(r.st, r.exc)
            ELSE start_edges_loop(r.st, Tail(items))

\* start_edges returning after the first edge of the iteration.
start_edges_first_only(st, items) ==
    IF items = <<>>
    THEN Return(st, None)
    ELSE LET r == _start_edge(st, Head(items), <<cfg.edge[Head(items)]>>)
         IN IF r.exc # NoExc THEN Raise(r.st, r.exc) ELSE Return(r.st, None)

\* items: the order in which dict(self.cfg.edge).items() yields the names.
start_edges(st, items) == start_edges_loop(st, items)

(***************************************************************************)
(* RuleHelpers.  A rules section is a record of its keys, each absent      *)
(* (<<>>) or present with a value (<<value>>); an attribute that is absent *)
(* reads as None.  load_lookup, the lookup drivers, pysasl and the         *)
(* SpamAssassin client are not part of these sources: a lookup object is   *)
(* modelled by its table (and is true, as a Python object without a length *)
(* is), lookup_address by the attributes it finds (<<attrs>>, or <<>> for  *)
(* None), and a password hash by a table of digests.                       *)
(***************************************************************************)
Addresses == {"sales@example.com", "info@example.com"}

Patterns == {"^sales@", "^info@"}

Matches(pattern, address) ==
    \/ pattern = "^sales@" /\ address = "sales@example.com"
    \/ pattern = "^info@" /\ address = "info@example.com"

Range(seq) == {seq[i] : i \in DOMAIN seq}

\* The attributes {} that the allow-lists map every entry to.
EmptyAttrs == [k \in {} |-> ""]

\* A lookup configuration: the records of a directory, by key.
Directory(table) == [cls |-> "LookupConfig", table |-> table]

\* The empty mapping {} that a default supplies for a lookup configuration.
EmptyFragment == [cls |-> "dict"]

load_lookup(fragment) ==
    IF fragment = None \/ fragment = EmptyFragment
    THEN None
    ELSE [cls |-> "Lookup", table |-> fragment.table]

DictLookup(map, key_template) ==
    [cls |-> "DictLookup", map |-> map, key_template |-> key_template]

RegexLookup(key_template, regexes) ==
    [cls |-> "RegexLookup", key_template |-> key_template, regexes |-> regexes]

\* lookup.lookup_address(address): <<attrs>> when a record is found, <<>> (None)
\* when none is.
lookup_address(lookup, address) ==
    CASE lookup.cls = "Lookup" ->
            IF address \in DOMAIN lookup.table THEN <<lookup.table[address]>> ELSE <<>>
      [] lookup.cls = "DictLookup" ->
            IF address \in DOMAIN lookup.map THEN <<lookup.map[address]>> ELSE <<>>
      [] lookup.cls = "RegexLookup" ->
            IF \E i \in DOMAIN lookup.regexes : Matches(lookup.regexes[i][1], address)
            THEN <<lookup.regexes[
                     CHOOSE i \in DOMAIN lookup.regexes :
                        /\ Matches(lookup.regexes[i][1], address)
                        /\ \A j \in 1..(i - 1) : ~Matches(lookup.regexes[j][1], address)][2]>>
            ELSE <<>>

\* key in rules, and the attribute rules.key
In(key, section) == section[key] # <<>>

Attr(section, key) == IF section[key] = <<>> THEN None ELSE section[key][1]

\* section.get(key, default)
Get(section, key, default) ==
    IF section[key] = <<>> THEN default ELSE section[key][1]

\* _get_lookup trying the flat list before the explicit lookup.
_get_lookup_list_first(section, lookup_section, list_section, regex_section) ==
    IF In(list_section, section)
    THEN DictLookup([a \in Range(section[list_section][1]) |-> EmptyAttrs], "{address}")
    ELSE IF In(lookup_section, section)
    THEN load_lookup(section[lookup_section][1])
    ELSE IF In(regex_section, section)
    THEN RegexLookup("{address}",
                     [i \in DOMAIN section[regex_section][1] |->
                         <<section[regex_section][1][i], EmptyAttrs>>])
    ELSE None

_get_lookup(section, lookup_section, list_section, regex_section) ==
    IF In(lookup_section, section)
    THEN load_lookup(section[lookup_section][1])
    ELSE IF In(list_section, section)
    THEN DictLookup([a \in Range(section[list_section][1]) |-> EmptyAttrs], "{address}")
    ELSE IF In(regex_section, section)
    THEN RegexLookup("{address}",
                     [i \in DOMAIN section[regex_section][1] |->
                         <<section[regex_section][1][i], EmptyAttrs>>])
    ELSE None

\* socket.getfqdn() and socket.gethostname()
Fqdn == "mail.example.com"
Hostname == "mail"

\* val.format(fqdn=..., hostname=...), of a template given by its pieces.
Format(val) ==
    [i \in DOMAIN val |->
        CASE val[i] = "{fqdn}" -> Fqdn
          [] val[i] = "{hostname}" -> Hostname
          [] OTHER -> val[i]]

\* val: <<>> for None, <<template>> otherwise; a template is not empty.
fill_hostname_template(val) ==
    IF val = <<>> THEN val ELSE <<Format(val[1])>>

DefaultSpamdHost == "localhost"
DefaultSpamdPort == 783

_get_spamassassin_object(options) ==
    [cls |-> "SpamAssassin",
     address |-> <<Get(options, "host", DefaultSpamdHost),
                   int(Get(options, "port", PyInt(DefaultSpamdPort)))>>]

\* options: <<>> for None; the scanner is <<>> for None.
_get_scanner(options) ==
    IF options = <<>>
    THEN <<>>
    ELSE IF Get(options[1], "type", "spamassassin") = "spamassassin"
    THEN <<_get_spamassassin_object(options[1])>>
    ELSE <<>>

\* get_hash(passlib_config=...)
get_hash(passlib_config) == [cls |-> "Hash", scheme |-> "pbkdf2_sha256"]

\* RuleHelpers.__init__.  banner, dnsbl, reject_spf and scanner are <<>> for
\* None.
RuleHelpers(section) ==
    [banner |-> fill_hostname_template(section["banner"]),
     dnsbl |-> section["dnsbl"],
     lookup_senders |-> _get_lookup(section, "lookup_senders",
                                    "only_senders", "regex_senders"),
     lookup_rcpts |-> _get_lookup(section, "lookup_recipients",
                                  "only_recipients", "regex_recipients"),
     lookup_creds |-> load_lookup(Attr(section, "lookup_credentials")),
     password_hash |-> get_hash(section["passlib_config"]),
     reject_spf |-> section["reject_spf"],
     scanner |-> _get_scanner(section["reject_spam"])]

\* The digest a password hash stores for a secret.
Digest(hash, secret) ==
    CASE secret = "hunter2" -> <<hash.scheme, "c1a5298f">>
      [] secret = "letmein" -> <<hash.scheme, "0d107d09">>

HashedIdentity(authcid, digest, hash) ==
    [cls |-> "HashedIdentity", authcid |-> authcid, digest |-> digest, hash |-> hash]

\* creds.verify(identity)
verify(creds, identity) ==
    /\ identity.authcid = creds.authcid
    /\ identity.digest = Digest(identity.hash, creds.secret)

\* check_credentials accepting an identity whose record has no password.
check_credentials_no_password(self, creds) ==
    IF self.lookup_creds = None
    THEN FALSE
    ELSE LET ret == lookup_address(self.lookup_creds, creds.authcid) IN
         IF ret = <<>>
         THEN FALSE
         ELSE IF "password" \notin DOMAIN ret[1]
         THEN TRUE
         ELSE LET identity == HashedIdentity(creds.authcid, ret[1]["password"],
                                             self.password_hash)
              IN IF ~verify(creds, identity) THEN FALSE ELSE TRUE

check_credentials(self, creds) ==
    IF self.lookup_creds = None
    THEN FALSE
    ELSE LET ret == lookup_address(self.lookup_creds, creds.authcid) IN
         IF ret = <<>> \/ DOMAIN ret[1] = {} \/ "password" \notin DOMAIN ret[1]
         THEN FALSE
         ELSE LET identity == HashedIdentity(creds.authcid, ret[1]["password"],
                                             self.password_hash)
              IN IF ~verify(creds, identity) THEN FALSE ELSE TRUE

\* is_sender_ok testing the authentication before the sender lookup.
is_sender_ok_auth_first(self, auth, sender) ==
    IF self.lookup_creds # None /\ ~auth
    THEN FALSE
    ELSE IF self.lookup_senders # None
    THEN lookup_address(self.lookup_senders, sender) # <<>>
    ELSE TRUE

\* auth: validators.session.auth, the truth value of it.
is_sender_ok(self, auth, sender) ==
    IF self.lookup_senders # None
    THEN lookup_address(self.lookup_senders, sender) # <<>>
    ELSE IF self.lookup_creds # None /\ ~auth
    THEN FALSE
    ELSE TRUE

is_recipient_ok(self, recipient) ==
    IF self.lookup_rcpts # None
    THEN lookup_address(self.lookup_rcpts, recipient) # <<>>
    ELSE TRUE

(***************************************************************************)
(* add_queue_policies.  A policy entry is a record of its keys: type, and  *)
(* the keys the code reads of it, each absent (<<>>) or present.  A queue  *)
(* is modelled by the policies add_policy was called with, in call order.  *)
(***************************************************************************)
\* The number of entries of a policy list.
MaxPolicies == 3

\* The types add_queue_policies has a branch for.
PolicyTypes ==
    {"add_date_header", "add_messageid_header", "add_received_header",
     "recipient_split", "recipient_domain_split", "lookup", "forward",
     "spamassassin", "add_dkim_header"}

ConfigValidationError(text) ==
    <<[cls |-> "ConfigValidationError", msg |-> <<text, "">>]>>

\* A policy entry with no key but type.
PolicyEntry(type) ==
    [type |-> type, hostname |-> <<>>, lookup |-> <<>>, on_sender |-> <<>>,
     on_recipients |-> <<>>, mapping |-> <<>>, host |-> <<>>, port |-> <<>>,
     dkim |-> <<>>]

\* queue.add_policy(policy)
add_policy(queue, policy) == [queue EXCEPT !.policies = Append(@, policy)]

\* The policy add_queue_policies builds for an entry of a type other than
\* lookup that it has a branch for.
BuiltinPolicy(policy) ==
    CASE policy.type = "add_date_header" -> [cls |-> "AddDateHeader"]
      [] policy.type = "add_messageid_header" ->
            [cls |-> "AddMessageIdHeader", hostname |-> policy.hostname]
      [] policy.type = "add_received_header" -> [cls |-> "AddReceivedHeader"]
      [] policy.type = "recipient_split" -> [cls |-> "RecipientSplit"]
      [] policy.type = "recipient_domain_split" -> [cls |-> "RecipientDomainSplit"]
      [] policy.type = "forward" ->
            [cls |-> "Forward", mapping |-> Get(policy, "mapping", <<>>)]
      [] policy.type = "spamassassin" -> _get_spamassassin_object(policy)
      [] policy.type = "add_dkim_header" ->
            [cls |-> "AddDKIMHeader", dkim |-> policy.dkim]

LookupPolicy(lookup, on_sender, on_rcpts) ==
    [cls |-> "LookupPolicy", lookup |-> lookup,
     on_sender |-> on_sender, on_rcpts |-> on_rcpts]

\* The outcome [st, ret, exc]: st is the queue after the call.
RECURSIVE add_queue_policies(_, _)
add_queue_policies(queue, policy_options) ==
    IF policy_options = <<>>
    THEN Return(queue, None)
    ELSE LET policy == Head(policy_options) IN
         IF policy.type = "lookup"
         THEN LET lookup == load_lookup(Get(policy, "lookup", EmptyFragment))
                  on_sender == Get(policy, "on_sender", FALSE)
                  on_rcpts == Get(policy, "on_recipients", TRUE)
              IN IF lookup # None
                 THEN add_queue_policies(
                          add_policy(queue, LookupPolicy(lookup, on_sender, on_rcpts)),
                          Tail(policy_options))
                 ELSE Raise(queue, ConfigValidationError("Incomplete lookup policy section"))
         ELSE IF policy.type \in PolicyTypes
         THEN add_queue_policies(add_policy(queue, BuiltinPolicy(policy)),
                                 Tail(policy_options))
         ELSE add_queue_policies(queue, Tail(policy_options))

(***************************************************************************)
(* build_smtpedge_validators.  A handler works on the RuleHelpers object   *)
(* of its closure (rules) and on the reply it is given; its outcome is the *)
(* record [rules, reply, calls, exc]: the RuleHelpers object and the reply *)
(* after the call, the checks made in order, and the exception raised, if  *)
(* any.  The message of a reply is the sequence of its pieces.             *)
(*                                                                         *)
(* check_dnsbl and EnforceSpf.check belong to the toolkit: the wrapper     *)
(* they return asks the blocklist (resp. the SPF record) first, on a match *)
(* sets the reply to the match code and message and returns, and calls the *)
(* wrapped handler otherwise.  What the blocklist, the SPF query and the   *)
(* scanner answer is an input (world).                                     *)
(***************************************************************************)
Reply(code, message) == [code |-> code, message |-> message]

Handling(rh, reply) == [rules |-> rh, reply |-> reply, calls |-> <<>>, exc |-> NoExc]

Called(h, what) == [h EXCEPT !.calls = Append(@, what)]

NoopDecorator == [cls |-> "_noop_decorator"]

\* get_banner_decorator always returning the no-op decorator.
get_banner_decorator_noop(self) == NoopDecorator

get_banner_decorator(self) ==
    IF self.dnsbl # <<>>
    THEN IF self.dnsbl[1].cls = "list"
         THEN [cls |-> "check_dnsbl",
               bl |-> [cls |-> "DnsBlocklistGroup", dnsbls |-> self.dnsbl[1].items],
               match_code |-> "520"]
         ELSE IF self.dnsbl[1].cls = "str"
         THEN [cls |-> "check_dnsbl", bl |-> self.dnsbl[1], match_code |-> "520"]
         ELSE [cls |-> "check_dnsbl",
               bl |-> [cls |-> "DnsBlocklist",
                       address |-> self.dnsbl[1].address,
                       ignore |-> self.dnsbl[1].ignore],
               match_code |-> "520"]
    ELSE NoopDecorator

get_mail_decorator(self) ==
    IF self.reject_spf # <<>>
    THEN [cls |-> "EnforceSpf.check",
          policies |-> [t \in Range(self.reject_spf[1]) |->
                           [match_code |-> "550",
                            match_message |-> "5.7.1 Access denied; {reason}"]]]
    ELSE NoopDecorator

\* The wrapper a decorator returns, called on h, up to its call of the handler
\* it wraps: the outcome so far, and whether the handler is called.
Wrapper(decorator, h, world) ==
    CASE decorator.cls = "_noop_decorator" -> [h |-> h, proceed |-> TRUE]
      [] decorator.cls = "check_dnsbl" ->
            LET h1 == Called(h, "check_dnsbl") IN
            IF world.listed
            THEN [h |-> [h1 EXCEPT !.reply = Reply(decorator.match_code,
                                                   <<"5.7.1 Access denied">>)],
                  proceed |-> FALSE]
            ELSE [h |-> h1, proceed |-> TRUE]
      [] decorator.cls = "EnforceSpf.check" ->
            LET h1 == Called(h, "EnforceSpf.check") IN
            IF world.spf \in DOMAIN decorator.policies
            THEN [h |-> [h1 EXCEPT !.reply =
                            Reply(decorator.policies[world.spf].match_code,
                                  <<"5.7.1 Access denied; ", world.spf>>)],
                  proceed |-> FALSE]
            ELSE [h |-> h1, proceed |-> TRUE]

\* set_banner_message forgetting the banner once it has been sent.
set_banner_message_once(h) ==
    LET h1 == Called(h, "set_banner_message") IN
    IF h.rules.banner # <<>>
    THEN [h1 EXCEPT !.reply.message = h.rules.banner[1], !.rules.banner = <<>>]
    ELSE h1

\* self is h.rules.
set_banner_message(h) ==
    LET h1 == Called(h, "set_banner_message") IN
    IF h.rules.banner # <<>>
    THEN [h1 EXCEPT !.reply.message = h.rules.banner[1]]
    ELSE h1

\* scan: what self.scanner.scan(data) answers, (is_spam, info).
reject_spam(self, data, scan) ==
    IF self.scanner # <<>>
    THEN scan[1]
    ELSE FALSE

handle_banner(rh, reply, address, world) ==
    LET w == Wrapper(get_banner_decorator(rh), Handling(rh, reply), world) IN
    IF w.proceed THEN set_banner_message(w.h) ELSE w.h

handle_auth(rh, reply, creds) ==
    LET h == Called(Handling(rh, reply), "check_credentials") IN
    IF ~check_credentials(rh, creds)
    THEN [h EXCEPT !.reply = Reply("535", <<"5.7.8 Authentication credentials invalid">>)]
    ELSE h

\* The handle_mail that the mail decorator wraps.
handle_mail_unwrapped(h, session, sender) ==
    LET h1 == Called(h, "is_sender_ok") IN
    IF ~is_sender_ok(h.rules, session.auth, sender)
    THEN [h1 EXCEPT !.reply = Reply("550", <<"5.7.1 Sender <", sender, "> Not allowed">>)]
    ELSE h1

handle_mail(rh, session, reply, sender, world) ==
    LET w == Wrapper(get_mail_decorator(rh), Handling(rh, reply), world) IN
    IF w.proceed THEN handle_mail_unwrapped(w.h, session, sender) ELSE w.h

\* handle_rcpt refusing as the WSGI validators do, by raising.
handle_rcpt_raising(rh, reply, rcpt) ==
    LET h == Called(Handling(rh, reply), "is_recipient_ok") IN
    IF ~is_recipient_ok(rh, rcpt)
    THEN [h EXCEPT !.exc = <<[cls |-> "WsgiResponse",
                              msg |-> <<"403 Forbidden", rcpt>>]>>]
    ELSE h

handle_rcpt(rh, reply, rcpt) ==
    LET h == Called(Handling(rh, reply), "is_recipient_ok") IN
    IF ~is_recipient_ok(rh, rcpt)
    THEN [h EXCEPT !.reply = Reply("550", <<"5.7.1 Recipient <", rcpt, "> Not allowed">>)]
    ELSE h

handle_have_data(rh, reply, data, scan) ==
    LET h == Called(Handling(rh, reply), "reject_spam") IN
    IF reject_spam(rh, data, scan)
    THEN [h EXCEPT !.reply = Reply("554", <<"5.6.0 Message content rejected">>)]
    ELSE h

(***************************************************************************)
(* build_backoff_function.  A retry section is absent (<<>>, None) or a    *)
(* record of its keys maximum and delay, each absent or present.  A value  *)
(* of maximum is an int or the decimal text of one, a value of delay the   *)
(* text of an expression in x.  The function returned is modelled by its   *)
(* closure, and what it returns by <<>> for None and <<d>> for a delay d.  *)
(***************************************************************************)
MaxMaximum == 3
MaxAttempts == 5

DefaultMaximum == 0
DefaultDelay == "300"

MaximumValues ==
    {PyInt(n) : n \in 0..MaxMaximum} \cup {PyStr(Decimal(n)) : n \in 0..MaxMaximum}

DelayExprs == {"300", "x*2", "x", "2**x", "60*(x+1)"}

\* eval('lambda x: '+delay, math.__dict__) applied to x
delay_func(delay, x) ==
    CASE delay = "300" -> 300
      [] delay = "x*2" -> x * 2
      [] delay = "x" -> x
      [] delay = "2**x" -> 2 ^ x
      [] delay = "60*(x+1)" -> 60 * (x + 1)

RetrySections ==
    [maximum : {<<>>} \cup {<<m>> : m \in MaximumValues},
     delay : {<<>>} \cup {<<d>> : d \in DelayExprs}]

\* not retry: None, or a section with no key
Empty(section) == section = <<>> \/ (section[1].maximum = <<>> /\ section[1].delay = <<>>)

\* build_backoff_function without the test of retry.
build_backoff_function_always(section) ==
    LET given == IF section = <<>> THEN [maximum |-> <<>>, delay |-> <<>>] ELSE section[1] IN
    [func |-> "backoff",
     maximum |-> int(Get(given, "maximum", PyInt(DefaultMaximum))),
     delay |-> Get(given, "delay", DefaultDelay)]

build_backoff_function(section) ==
    IF Empty(section)
    THEN [func |-> "no_retries"]
    ELSE [func |-> "backoff",
          maximum |-> int(Get(section[1], "maximum", PyInt(DefaultMaximum))),
          delay |-> Get(section[1], "delay", DefaultDelay)]

no_retries(closure, envelope, attempts) == <<>>

\* backoff stopping at attempts = maximum already.
backoff_stop_at_maximum(closure, envelope, attempts) ==
    IF attempts >= closure.maximum
    THEN <<>>
    ELSE <<delay_func(closure.delay, attempts)>>

backoff(closure, envelope, attempts) ==
    IF attempts > closure.maximum
    THEN <<>>
    ELSE <<delay_func(closure.delay, attempts)>>

\* The function build_backoff_function returned, called.
Apply(closure, envelope, attempts) ==
    IF closure.func = "no_retries"
    THEN no_retries(closure, envelope, attempts)
    ELSE backoff(closure, envelope, attempts)

Envelopes == {"envelope1", "envelope2"}

(***************************************************************************)
(* The calls on a SlimtaState object.  last records the latest call: the   *)
(* method, its argument, the length of history when it was made, and its   *)
(* outcome.                                                                *)
(***************************************************************************)
Call(op, arg, r) ==
    /\ relays' = r.st.relays
    /\ queues' = r.st.queues
    /\ edges' = r.st.edges
    /\ celery' = r.st.celery
    /\ history' = r.st.history
    /\ last' = [op |-> op, arg |-> arg, mark |-> Len(history),
                ret |-> r.ret, exc |-> r.exc]
    /\ UNCHANGED <<cfg, ruleVars, backoffVars, policyVars, validatorVars>>

StartRelay == \E name \in RelayNames :
    Call("_start_relay", <<name>>, _start_relay(Self, name, NoOptions))

StartQueue == \E name \in QueueNames :
    Call("_start_queue", <<name>>, _start_queue(Self, name, NoOptions))

StartEdge == \E name \in EdgeNames :
    Call("_start_edge", <<name>>, _start_edge(Self, name, NoOptions))

StartCeleryQueues == \E items \in Orders(QueueNames) :
    Call("start_celery_queues", <<>>, start_celery_queues(Self, items))

StartEdges == \E items \in Orders(EdgeNames) :
    Call("start_edges", <<>>, start_edges(Self, items))

\* SlimtaState.__init__, with the configuration loaded.
GraphInit ==
    /\ relays = EmptyDict
    /\ queues = EmptyDict
    /\ edges = EmptyDict
    /\ celery = None
    /\ history = <<>>
    /\ last = [op |-> "__init__", arg |-> <<>>, mark |-> 0, ret |-> None, exc |-> NoExc]

NoConfig == [relay |-> EmptyDict, queue |-> EmptyDict, edge |-> EmptyDict]

(***************************************************************************)
(* The queries of a RuleHelpers object.                                    *)
(***************************************************************************)
SenderFragments == {None, Directory([a \in {"sales@example.com"} |-> EmptyAttrs])}

AddressLists == {<<"info@example.com">>, <<"sales@example.com", "info@example.com">>}

PatternLists == {<<"^info@">>, <<"^sales@", "^info@">>}

\* alice has a password, bob a record without one, carol an empty record and
\* dave no record.
Identities == {"alice", "bob", "carol", "dave"}

Secrets == {"hunter2", "letmein"}

CredentialFragments ==
    {None,
     Directory([a \in {"alice", "bob", "carol"} |->
         CASE a = "alice" ->
                 [k \in {"password"} |-> Digest(get_hash(<<>>), "hunter2")]
           [] a = "bob" -> [k \in {"mailbox"} |-> <<"maildir", "bob">>]
           [] a = "carol" -> EmptyAttrs])}

Optional(values) == {<<>>} \cup {<<v>> : v \in values}

\* The keys of a rules section that are no lookups: all absent, or all present.
CheckSections ==
    {[banner |-> <<>>, dnsbl |-> <<>>, reject_spf |-> <<>>, reject_spam |-> <<>>],
     [banner |-> <<<<"{fqdn}", " ESMTP Mail Gateway">>>>,
      dnsbl |-> <<[cls |-> "str", text |-> "zen.spamhaus.org"]>>,
      reject_spf |-> <<<<"fail">>>>,
      reject_spam |-> <<[type |-> <<>>, host |-> <<>>, port |-> <<>>]>>]}

RulesSections ==
    {[banner |-> c.banner,
      dnsbl |-> c.dnsbl,
      lookup_senders |-> l.lookup_senders,
      only_senders |-> l.only_senders,
      regex_senders |-> l.regex_senders,
      lookup_recipients |-> l.lookup_recipients,
      only_recipients |-> l.only_recipients,
      regex_recipients |-> l.regex_recipients,
      lookup_credentials |-> l.lookup_credentials,
      passlib_config |-> <<>>,
      reject_spf |-> c.reject_spf,
      reject_spam |-> c.reject_spam] :
        l \in [lookup_senders : Optional(SenderFragments),
               only_senders : Optional(AddressLists),
               regex_senders : Optional(PatternLists),
               lookup_recipients : Optional(SenderFragments),
               only_recipients : Optional(AddressLists),
               regex_recipients : Optional(PatternLists),
               lookup_credentials : Optional(CredentialFragments)],
        c \in CheckSections}

Credentials == [authcid : Identities, authzid : {""}, secret : Secrets]

Query(op, arg, ret) ==
    /\ query' = [op |-> op, arg |-> arg, ret |-> ret]
    /\ UNCHANGED <<rules, helpers, graphVars, backoffVars, policyVars, validatorVars>>

CheckCredentials == \E creds \in Credentials :
    Query("check_credentials", <<creds>>, check_credentials(helpers, creds))

IsSenderOk == \E auth \in BOOLEAN, sender \in Addresses :
    Query("is_sender_ok", <<[auth |-> auth, sender |-> sender]>>,
          is_sender_ok(helpers, auth, sender))

IsRecipientOk == \E recipient \in Addresses :
    Query("is_recipient_ok", <<[recipient |-> recipient]>>,
          is_recipient_ok(helpers, recipient))

NoQuery == [op |-> "__init__", arg |-> <<>>, ret |-> TRUE]

RulesIdle ==
    /\ rules = <<>>
    /\ helpers = None
    /\ query = NoQuery

\* A RuleHelpers object, built.
RulesInit ==
    /\ rules \in RulesSections
    /\ helpers = RuleHelpers(rules)
    /\ query = NoQuery

(***************************************************************************)
(* The calls of a backoff function.                                        *)
(***************************************************************************)
Backoff == \E envelope \in Envelopes, attempts \in 0..MaxAttempts :
    /\ attempt' = [envelope |-> envelope, attempts |-> <<attempts>>,
                   ret |-> Apply(backoff_func, envelope, attempts)]
    /\ UNCHANGED <<retry, backoff_func, graphVars, ruleVars, policyVars, validatorVars>>

NoAttempt == [envelope |-> "", attempts |-> <<>>, ret |-> <<>>]

BackoffIdle ==
    /\ retry = <<>>
    /\ backoff_func = [func |-> "no_retries"]
    /\ attempt = NoAttempt

\* A backoff function, built.
BackoffInit ==
    /\ retry \in Optional(RetrySections)
    /\ backoff_func = build_backoff_function(retry)
    /\ attempt = NoAttempt

(***************************************************************************)
(* The call of add_queue_policies on a queue.                              *)
(***************************************************************************)
\* The lookup configurations of a lookup entry: none, one that resolves to no
\* table and one that resolves.
PolicyFragments ==
    {<<>>, <<EmptyFragment>>,
     <<Directory([a \in {"sales@example.com"} |-> EmptyAttrs])>>}

\* "add_header" is a type add_queue_policies has no branch for.
PolicyEntries ==
    {PolicyEntry(type) : type \in (PolicyTypes \ {"lookup"}) \cup {"add_header"}}
        \cup {[PolicyEntry("lookup") EXCEPT !.lookup = f] : f \in PolicyFragments}

PolicyLists ==
    UNION {[1..n -> PolicyEntries] : n \in 0..MaxPolicies}

NewQueue == [cls |-> "Queue", policies |-> <<>>]

NotComposed == [called |-> FALSE, mark |-> 0, exc |-> NoExc]

AddQueuePolicies ==
    /\ ~composed.called
    /\ LET r == add_queue_policies(policy_queue, policy_section) IN
          /\ policy_queue' = r.st
          /\ composed' = [called |-> TRUE, mark |-> Len(policy_queue.policies), exc |-> r.exc]
    /\ UNCHANGED <<policy_section, graphVars, ruleVars, backoffVars, validatorVars>>

PoliciesIdle ==
    /\ policy_section = <<>>
    /\ policy_queue = NewQueue
    /\ composed = NotComposed

\* A queue, new or with a policy already, and the policy list of its section.
PoliciesInit ==
    /\ policy_section \in PolicyLists
    /\ policy_queue \in {NewQueue, add_policy(NewQueue, [cls |-> "AddReceivedHeader"])}
    /\ composed = NotComposed

(***************************************************************************)
(* The calls of the handlers of the validators class that                  *)
(* build_smtpedge_validators returns, by any connection.  Every command of *)
(* a connection is given a reply of its own.                               *)
(***************************************************************************)
\* The reply a handler is given: the one of the command, or one that an
\* earlier check has set.
BannerReply == Reply("220", <<"ESMTP">>)

Replies == {Reply("250", <<"2.0.0 Ok">>), Reply("451", <<"4.3.0 Try again">>)}

SpfResults == {"pass", "fail"}

Sessions == [auth : BOOLEAN]

\* The forms of dnsbl: a host, a list of hosts, and a host with the answers
\* to ignore.
DnsblForms ==
    {[cls |-> "str", text |-> "zen.spamhaus.org"],
     [cls |-> "list", items |-> <<"zen.spamhaus.org", "bl.spamcop.net">>],
     [cls |-> "dict", address |-> "zen.spamhaus.org", ignore |-> <<"127.0.0.10">>]}

ValidatorSections ==
    {[banner |-> s.banner,
      dnsbl |-> s.dnsbl,
      lookup_senders |-> <<>>,
      only_senders |-> s.only_senders,
      regex_senders |-> <<>>,
      lookup_recipients |-> <<>>,
      only_recipients |-> <<>>,
      regex_recipients |-> s.regex_recipients,
      lookup_credentials |-> s.lookup_credentials,
      passlib_config |-> <<>>,
      reject_spf |-> s.reject_spf,
      reject_spam |-> s.reject_spam] :
        s \in [banner : Optional({<<"{fqdn}", " ESMTP Mail Gateway">>}),
               dnsbl : Optional(DnsblForms),
               only_senders : Optional({<<"info@example.com">>}),
               regex_recipients : Optional({<<"^sales@">>}),
               lookup_credentials : Optional(CredentialFragments \ {None}),
               reject_spf : Optional({<<"fail">>}),
               reject_spam : Optional({[type |-> <<>>, host |-> <<>>, port |-> <<>>]})]}

\* The outcome of a handler becomes the latest call; memo keeps the latest
\* call so far or what it already kept.
Handled(op, arg, h) ==
    /\ helpers' = h.rules
    /\ handled' = [op |-> op, arg |-> arg, reply |-> h.reply,
                   calls |-> h.calls, exc |-> h.exc]
    /\ memo' \in {memo, handled}
    /\ UNCHANGED <<rules, query, graphVars, backoffVars, policyVars>>

HandleBanner == \E reply \in {BannerReply}, listed \in BOOLEAN :
    Handled("handle_banner", [reply |-> reply, listed |-> listed],
            handle_banner(helpers, reply, "192.0.2.1", [listed |-> listed]))

HandleAuth == \E reply \in {Reply("235", <<"2.7.0 Ok">>)},
                 creds \in {c \in Credentials : c.authcid = "alice" \/ c.secret = "hunter2"} :
    Handled("handle_auth", [reply |-> reply, creds |-> creds],
            handle_auth(helpers, reply, creds))

HandleMail == \E reply \in {Reply("250", <<"2.0.0 Ok">>)}, session \in Sessions,
                 sender \in Addresses,
                 spf \in SpfResults :
    Handled("handle_mail",
            [reply |-> reply, session |-> session, sender |-> sender, spf |-> spf],
            handle_mail(helpers, session, reply, sender, [spf |-> spf]))

HandleRcpt == \E reply \in Replies, rcpt \in Addresses :
    Handled("handle_rcpt", [reply |-> reply, rcpt |-> rcpt],
            handle_rcpt(helpers, reply, rcpt))

HandleHaveData == \E reply \in Replies, is_spam \in BOOLEAN :
    Handled("handle_have_data", [reply |-> reply, is_spam |-> is_spam],
            handle_have_data(helpers, reply, "data", <<is_spam, "info">>))

NotHandled ==
    [op |-> "__init__", arg |-> <<>>, reply |-> Reply("", <<>>),
     calls |-> <<>>, exc |-> NoExc]

ValidatorsIdle ==
    /\ handled = NotHandled
    /\ memo = NotHandled

\* build_smtpedge_validators(options): the RuleHelpers object of the closure.
ValidatorsInit ==
    /\ rules \in ValidatorSections
    /\ helpers = RuleHelpers(rules)
    /\ query = NoQuery
    /\ handled = NotHandled
    /\ memo = NotHandled

(***************************************************************************)
(* A configuration whose queue sections carry policies.  SlimtaState reads *)
(* type and relay of a queue section and nothing else of it.               *)
(***************************************************************************)
StartupPolicyLists ==
    {<<>>,
     <<PolicyEntry("add_date_header"), PolicyEntry("lookup")>>,
     <<[PolicyEntry("lookup") EXCEPT
           !.lookup = <<Directory([a \in {"sales@example.com"} |-> EmptyAttrs])>>]>>}

StartupConfigs ==
    [relay : [RelayNames -> [type : {"mx"}]],
     queue : [QueueNames -> [type : {"default", "celery"},
                             relay : {<<r>> : r \in RelayNames},
                             policies : StartupPolicyLists]],
     edge : [EdgeNames -> [type : {"smtp"}, queue : {<<q>> : q \in QueueNames}]]]

(***************************************************************************)
(* The specifications: Spec of a SlimtaState object, SpecRules of a        *)
(* RuleHelpers object, SpecBackoff of a backoff function, SpecPolicies of  *)
(* a call of add_queue_policies, SpecValidators of the handlers of a       *)
(* validators class and SpecStartup of a SlimtaState object whose queue    *)
(* sections carry policies.                                                *)
(***************************************************************************)
Init ==
    /\ cfg \in Configs
    /\ GraphInit
    /\ RulesIdle
    /\ BackoffIdle
    /\ PoliciesIdle
    /\ ValidatorsIdle

Next ==
    \/ StartRelay
    \/ StartQueue
    \/ StartEdge
    \/ StartCeleryQueues
    \/ StartEdges

Spec == Init /\ [][Next]_vars

InitRules ==
    /\ cfg = NoConfig
    /\ GraphInit
    /\ RulesInit
    /\ BackoffIdle
    /\ PoliciesIdle
    /\ ValidatorsIdle

NextRules ==
    \/ CheckCredentials
    \/ IsSenderOk
    \/ IsRecipientOk

SpecRules == InitRules /\ [][NextRules]_vars

InitBackoff ==
    /\ cfg = NoConfig
    /\ GraphInit
    /\ RulesIdle
    /\ BackoffInit
    /\ PoliciesIdle
    /\ ValidatorsIdle

NextBackoff == Backoff

SpecBackoff == InitBackoff /\ [][NextBackoff]_vars

InitPolicies ==
    /\ cfg = NoConfig
    /\ GraphInit
    /\ RulesIdle
    /\ BackoffIdle
    /\ PoliciesInit
    /\ ValidatorsIdle

NextPolicies == AddQueuePolicies

SpecPolicies == InitPolicies /\ [][NextPolicies]_vars

InitValidators ==
    /\ cfg = NoConfig
    /\ GraphInit
    /\ ValidatorsInit
    /\ BackoffIdle
    /\ PoliciesIdle

NextValidators ==
    \/ HandleBanner
    \/ HandleAuth
    \/ HandleMail
    \/ HandleRcpt
    \/ HandleHaveData

SpecValidators == InitValidators /\ [][NextValidators]_vars

InitStartup ==
    /\ cfg \in StartupConfigs
    /\ GraphInit
    /\ RulesIdle
    /\ BackoffIdle
    /\ PoliciesIdle
    /\ ValidatorsIdle

SpecStartup == InitStartup /\ [][Next]_vars

(***************************************************************************)
(* Properties of the component graph builder.                              *)
(***************************************************************************)
\* The number of events of history that are ev of the component kind:name.
Count(ev, kind, name) ==
    Cardinality({i \in DOMAIN history : history[i] = Event(ev, kind, name)})

\* The events of the latest call.
LastEvents == SubSeq(history, last.mark + 1, Len(history))

IsCelery(q) == cfg.queue[q].type = "celery"

C1_OnceEach ==
    /\ \A n \in RelayNames :
          /\ Count("construct", "relay", n) = (IF n \in DOMAIN relays THEN 1 ELSE 0)
          /\ Count("register", "relay", n) = (IF n \in DOMAIN relays THEN 1 ELSE 0)
    /\ \A n \in QueueNames :
          /\ Count("construct", "queue", n)
                = (IF n \in DOMAIN queues /\ queues[n] # None THEN 1 ELSE 0)
          /\ Count("register", "queue", n) = (IF n \in DOMAIN queues THEN 1 ELSE 0)
    /\ \A n \in EdgeNames :
          /\ Count("construct", "edge", n) = (IF n \in DOMAIN edges THEN 1 ELSE 0)
          /\ Count("start", "edge", n) = (IF n \in DOMAIN edges THEN 1 ELSE 0)
          /\ Count("register", "edge", n) = (IF n \in DOMAIN edges THEN 1 ELSE 0)

C1_Hit ==
    /\ (last'.op = "_start_relay" /\ last'.arg[1] \in DOMAIN relays)
          => /\ last'.ret = relays[last'.arg[1]]
             /\ last'.exc = NoExc
             /\ UNCHANGED <<relays, queues, edges, celery, history>>
    /\ (last'.op = "_start_queue" /\ last'.arg[1] \in DOMAIN queues)
          => /\ last'.ret = queues[last'.arg[1]]
             /\ last'.exc = NoExc
             /\ UNCHANGED <<relays, queues, edges, celery, history>>
    /\ (last'.op = "_start_edge" /\ last'.arg[1] \in DOMAIN edges)
          => /\ last'.ret = edges[last'.arg[1]]
             /\ last'.exc = NoExc
             /\ UNCHANGED <<relays, queues, edges, celery, history>>
    /\ (last'.op = "start_celery_queues"
            /\ \A n \in QueueNames : IsCelery(n) => n \in DOMAIN queues)
          => /\ last'.exc = NoExc
             /\ UNCHANGED <<relays, queues, edges, celery, history>>
    /\ (last'.op = "start_edges" /\ DOMAIN edges = EdgeNames)
          => /\ last'.exc = NoExc
             /\ UNCHANGED <<relays, queues, edges, celery, history>>

\* C1: after any sequence of _start_relay, _start_queue, _start_edge,
\* start_celery_queues and start_edges calls, every name in a registry was
\* constructed (and registered, and for an edge started) exactly once, and a
\* request for a name already in its registry returns the stored instance (the
\* null placeholder for a default queue) with no construction, no registry
\* change and no edge start().
C1_Memoized == []C1_OnceEach /\ [][C1_Hit]_vars

\* A second request for an edge that is built: nothing happened in the call.
C1_Witness ==
    /\ last.op = "_start_edge"
    /\ last.arg[1] \in DOMAIN edges
    /\ last.mark = Len(history)
    /\ last.ret = edges[last.arg[1]]
    /\ \E q \in DOMAIN queues : queues[q] = None

\* The celery queues of the registry that are configured with relay r, and the
\* edges of the registry that are configured with queue q.
QueuesOn(r) == {q \in DOMAIN queues : IsCelery(q) /\ cfg.queue[q].relay = <<r>>}

EdgesOn(q) == {e \in DOMAIN edges : cfg.edge[e].queue = <<q>>}

C2_Shared ==
    /\ \A r \in RelayNames :
          /\ Count("construct", "relay", r) <= 1
          /\ \A q \in QueuesOn(r) :
                r \in DOMAIN relays /\ queues[q].relay = relays[r]
    /\ \A q \in QueueNames :
          /\ Count("construct", "queue", q) <= 1
          /\ \A e \in EdgesOn(q) :
                q \in DOMAIN queues /\ edges[e].queue = queues[q]

C2_SameInstance ==
    /\ \A q \in DOMAIN queues : q \in DOMAIN queues' /\ queues'[q] = queues[q]
    /\ \A r \in DOMAIN relays : r \in DOMAIN relays' /\ relays'[r] = relays[r]
    /\ (last'.op = "_start_queue" /\ last'.exc = NoExc)
          => /\ last'.arg[1] \in DOMAIN queues'
             /\ last'.ret = queues'[last'.arg[1]]

\* C2: the celery queues that name the same relay are all bound to the one
\* instance of it in the relays registry, which was constructed at most once;
\* the edges that name the same queue are all bound to the one instance of it
\* in the queues registry; and every _start_queue call for a name returns the
\* instance registered under it, which never changes, so two calls with the
\* same name return the identical instance.
C2_SharedOnce == []C2_Shared /\ [][C2_SameInstance]_vars

\* Two celery queues on one relay and two edges on one of these queues, and a
\* _start_queue call that returned a celery queue.
C2_Witness ==
    /\ \E r \in RelayNames : Cardinality(QueuesOn(r)) >= 2
    /\ \E q \in QueueNames : IsCelery(q) /\ Cardinality(EdgesOn(q)) >= 2
    /\ last.op = "_start_queue"
    /\ last.ret # None

\* Some event ev of kind:name occurs in history before position i.
Before(ev, kind, name, i) ==
    \E j \in 1..(i - 1) : history[j] = Event(ev, kind, name)

C3_Present ==
    /\ \A e \in DOMAIN edges :
          /\ cfg.edge[e].queue # <<>>
          /\ cfg.edge[e].queue[1] \in DOMAIN queues
    /\ \A q \in DOMAIN queues :
          IsCelery(q) => /\ cfg.queue[q].relay # <<>>
                         /\ cfg.queue[q].relay[1] \in DOMAIN relays

C3_Order ==
    \A i \in DOMAIN history :
        LET e == history[i] IN
        /\ (e.kind = "queue" /\ e.ev = "construct")
              => /\ cfg.queue[e.name].relay # <<>>
                 /\ Before("construct", "relay", cfg.queue[e.name].relay[1], i)
                 /\ Before("register", "relay", cfg.queue[e.name].relay[1], i)
        /\ (e.kind = "edge" /\ e.ev = "construct")
              => /\ cfg.edge[e.name].queue # <<>>
                 /\ Before("register", "queue", cfg.edge[e.name].queue[1], i)
        /\ (e.kind = "edge" /\ e.ev = "start")
              => Before("construct", "edge", e.name, i)
        /\ (e.ev = "register" /\ e.kind \in {"relay", "edge"})
              => Before("construct", e.kind, e.name, i)

\* C3: in every reachable state each edge of the edges registry has its
\* configured queue in the queues registry and each celery queue of the queues
\* registry has its configured relay in the relays registry; a relay is
\* constructed and registered before the queue bound to it is constructed, and
\* the queue of an edge is registered before the edge is constructed, which is
\* before the edge is started.
C3_DependencyOrder == C3_Present /\ C3_Order

\* An edge on a celery queue on a relay, all three built.
C3_Witness ==
    \E e \in DOMAIN edges :
        /\ cfg.edge[e].queue # <<>>
        /\ IsCelery(cfg.edge[e].queue[1])
        /\ edges[e].queue.relay \in {relays[r] : r \in DOMAIN relays}

\* C4: when start_edges ends in a configuration error, no edge was started
\* during the call.
C4_NoPartialService ==
    (last.op = "start_edges" /\ last.exc # NoExc)
        => \A i \in DOMAIN LastEvents : LastEvents[i].ev # "start"

C5_AllStarted ==
    /\ DOMAIN edges = EdgeNames
    /\ \A e \in EdgeNames :
          /\ edges[e].started
          /\ Count("construct", "edge", e) = 1
          /\ Count("start", "edge", e) = 1

\* C5: when start_edges returns without error, the edges registry holds
\* exactly the configured edge names, each constructed and started exactly
\* once, whichever edges earlier calls had built and whatever the iteration
\* order.
C5_StartEdgesComplete ==
    (last.op = "start_edges" /\ last.exc = NoExc) => C5_AllStarted

\* start_edges returned after building one edge where another had been built
\* by an earlier call.
C5_Witness ==
    /\ last.op = "start_edges"
    /\ last.exc = NoExc
    /\ last.mark > 0
    /\ \E i \in DOMAIN LastEvents : LastEvents[i].ev = "start"
    /\ \E e \in EdgeNames : Before("start", "edge", e, last.mark + 1)

\* The registries and the external calls are as they were.
Untouched == UNCHANGED <<relays, queues, edges, celery, history>>

C14_Built ==
    /\ \A e \in DOMAIN edges : cfg.edge[e].queue # <<>>
    /\ \A q \in DOMAIN queues : IsCelery(q) => cfg.queue[q].relay # <<>>

C14_Step ==
    /\ (last'.op = "_start_edge" /\ cfg.edge[last'.arg[1]].queue = <<>>)
          => /\ last'.exc # NoExc
             /\ last'.exc[1].cls = "ConfigError"
             /\ cfg.edge[last'.arg[1]].type = "smtp"
                   => last'.exc = ConfigError("edge sections must be given a queue name", "")
             /\ last'.arg[1] \notin DOMAIN edges'
             /\ Untouched
    /\ (last'.op = "_start_queue" /\ IsCelery(last'.arg[1])
            /\ cfg.queue[last'.arg[1]].relay = <<>>)
          => /\ last'.exc = ConfigError("queue sections must be given a relay name", "")
             /\ last'.arg[1] \notin DOMAIN queues'
             /\ Untouched

\* C14: _start_edge for an edge section without a queue name raises a
\* ConfigError and _start_queue for a celery queue section without a relay name
\* raises a ConfigError; the call makes no external call, constructs and
\* starts nothing and leaves all three registries as they were, so that no
\* registry ever holds an edge without a queue name or a celery queue without a
\* relay name.
C14_MissingReference == []C14_Built /\ [][C14_Step]_vars

\* _start_edge refused an smtp edge without a queue name after a queue and an
\* edge had been built.
C14_Witness ==
    /\ last.op = "_start_edge"
    /\ last.exc = ConfigError("edge sections must be given a queue name", "")
    /\ last.mark = Len(history)
    /\ DOMAIN edges # {}
    /\ \E q \in DOMAIN queues : queues[q] # None

\* The sections of a kind whose type is the one a message ends with.
SectionsOfType(kind, type) ==
    CASE kind = "relay" -> {n \in RelayNames : cfg.relay[n].type = type}
      [] kind = "queue" -> {n \in QueueNames : cfg.queue[n].type = type}
      [] kind = "edge" -> {n \in EdgeNames : cfg.edge[n].type = type}

\* The kind an unknown-type message is about.
KindOfMessage(text) ==
    CASE text = "relay type does not exist: " -> "relay"
      [] text = "queue type does not exist: " -> "queue"
      [] text = "edge type does not exist: " -> "edge"
      [] OTHER -> ""

\* C15: the error raised for an unknown type carries the type and the name of
\* a section of that type, and the component asked for is not in its registry.
C15_NamesTypeAndSection ==
    (/\ last.op \in {"_start_relay", "_start_queue", "_start_edge"}
     /\ last.exc # NoExc
     /\ KindOfMessage(last.exc[1].msg[1]) # "")
        => LET kind == KindOfMessage(last.exc[1].msg[1])
               type == last.exc[1].msg[2]
           IN /\ SectionsOfType(kind, type) # {}
              /\ \E n \in SectionsOfType(kind, type) : n \in Range(last.exc[1].msg)
              /\ last.op = "_start_relay" => last.arg[1] \notin DOMAIN relays
              /\ last.op = "_start_queue" => last.arg[1] \notin DOMAIN queues
              /\ last.op = "_start_edge" => last.arg[1] \notin DOMAIN edges

\* The names of a kind that the events after position mark register.
Registered(kind, mark) ==
    {history'[i].name : i \in {j \in (mark + 1)..Len(history') :
                                  history'[j].ev = "register" /\ history'[j].kind = kind}}

C20_Step ==
    last'.exc # NoExc =>
        /\ last'.op = "_start_relay" => last'.arg[1] \notin DOMAIN relays'
        /\ last'.op = "_start_queue" => last'.arg[1] \notin DOMAIN queues'
        /\ last'.op = "_start_edge"
              => /\ last'.arg[1] \notin DOMAIN edges'
                 /\ \A i \in DOMAIN history' :
                       history'[i] # Event("start", "edge", last'.arg[1])
        /\ last'.op = "start_edges" => DOMAIN edges' # EdgeNames
        /\ SubSeq(history', 1, Len(history)) = history
        /\ DOMAIN relays' = DOMAIN relays \cup Registered("relay", Len(history))
        /\ DOMAIN queues' = DOMAIN queues \cup Registered("queue", Len(history))
        /\ DOMAIN edges' = DOMAIN edges \cup Registered("edge", Len(history))
        /\ \A r \in DOMAIN relays : relays'[r] = relays[r]
        /\ \A q \in DOMAIN queues : queues'[q] = queues[q]
        /\ \A e \in DOMAIN edges : edges'[e] = edges[e]
        /\ \A e \in DOMAIN edges' : edges'[e].cls = "SmtpEdge" /\ edges'[e].started
        /\ \A q \in DOMAIN queues' :
              IF IsCelery(q)
              THEN queues'[q].cls = "CeleryQueue"
                      /\ queues'[q].relay \in {relays'[r] : r \in DOMAIN relays'}
              ELSE queues'[q] = None

\* C20: when a call raises, the name it was asked to build is not in its
\* registry and no start() was called for a failing edge; the registries hold
\* what they held before the call, unchanged, and in addition exactly the
\* components the call had built and registered before it raised, each of them
\* complete (an edge started, a celery queue bound to a registered relay).
C20_NotRolledBack == [][C20_Step]_vars

\* _start_edge failed on the relay of its queue after an edge and its queue had
\* been built.
C20_Witness ==
    /\ last.op = "_start_edge"
    /\ last.exc = ConfigError("relay type does not exist: ", "pipe")
    /\ last.arg[1] \notin DOMAIN edges
    /\ DOMAIN edges # {}
    /\ DOMAIN queues # {}

(***************************************************************************)
(* Properties of RuleHelpers.                                              *)
(***************************************************************************)
\* The sender is found in the sender lookup.
SenderFound(sender) == lookup_address(helpers.lookup_senders, sender) # <<>>

\* C6: is_sender_ok is true iff the sender is found in the sender lookup when
\* one is configured, whatever the authentication state and the credential
\* lookup; otherwise true iff the session is authenticated when a credential
\* lookup is configured; otherwise true.
C6_SenderPrecedence ==
    query.op = "is_sender_ok" =>
        LET auth == query.arg[1].auth
            sender == query.arg[1].sender
        IN /\ helpers.lookup_senders # None => (query.ret <=> SenderFound(sender))
           /\ (helpers.lookup_senders = None /\ helpers.lookup_creds # None)
                 => (query.ret <=> auth)
           /\ (helpers.lookup_senders = None /\ helpers.lookup_creds = None)
                 => query.ret

\* An unauthenticated session and a credential lookup, and a sender that the
\* sender lookup holds: the sender is accepted.
C6_Witness ==
    /\ query.op = "is_sender_ok"
    /\ helpers.lookup_senders # None
    /\ helpers.lookup_creds # None
    /\ ~query.arg[1].auth
    /\ query.ret

\* The record the credential lookup holds for an identity.
CredentialRecord(authcid) == lookup_address(helpers.lookup_creds, authcid)

\* C7: check_credentials is false when no credential lookup is configured,
\* when the lookup has no record of the identity and when the record has no
\* password attribute; in every other case it is the result of verifying the
\* credentials against the stored hash.
C7_FailsClosed ==
    query.op = "check_credentials" =>
        LET creds == query.arg[1] IN
        IF helpers.lookup_creds = None
        THEN ~query.ret
        ELSE IF CredentialRecord(creds.authcid) = <<>>
        THEN ~query.ret
        ELSE IF "password" \notin DOMAIN CredentialRecord(creds.authcid)[1]
        THEN ~query.ret
        ELSE query.ret <=>
                verify(creds, HashedIdentity(creds.authcid,
                                             CredentialRecord(creds.authcid)[1]["password"],
                                             helpers.password_hash))

\* Credentials that verify.
C7_Witness ==
    /\ query.op = "check_credentials"
    /\ query.ret
    /\ query.arg[1].authcid = "alice"
    /\ query.arg[1].secret = "hunter2"

\* The section with of the keys listed only the first one that is present.
FirstOnly(section, keys) ==
    [k \in DOMAIN section |->
        IF /\ k \in Range(keys)
           /\ \E i \in DOMAIN keys :
                 /\ In(keys[i], section)
                 /\ \E j \in DOMAIN keys : keys[j] = k /\ i < j
        THEN <<>>
        ELSE section[k]]

C8_FirstKeyOf(lookup, keys) ==
    /\ lookup = _get_lookup(FirstOnly(rules, keys), keys[1], keys[2], keys[3])
    /\ In(keys[1], rules) => lookup = load_lookup(rules[keys[1]][1])
    /\ (~In(keys[1], rules) /\ In(keys[2], rules))
          => /\ lookup.cls = "DictLookup"
             /\ DOMAIN lookup.map = Range(rules[keys[2]][1])
    /\ (~In(keys[1], rules) /\ ~In(keys[2], rules) /\ In(keys[3], rules))
          => /\ lookup.cls = "RegexLookup"
             /\ [i \in DOMAIN lookup.regexes |-> lookup.regexes[i][1]] = rules[keys[3]][1]
    /\ (~In(keys[1], rules) /\ ~In(keys[2], rules) /\ ~In(keys[3], rules))
          => lookup = None

SenderKeys == <<"lookup_senders", "only_senders", "regex_senders">>

RecipientKeys == <<"lookup_recipients", "only_recipients", "regex_recipients">>

\* C8: for the sender and the recipient lookup alike, the lookup built is the
\* one of the first key present in the order lookup_*, only_*, regex_*, and is
\* the same as with the later keys absent; with no key present it is None.
C8_FirstPresentKey ==
    rules # <<>> =>
        /\ C8_FirstKeyOf(helpers.lookup_senders, SenderKeys)
        /\ C8_FirstKeyOf(helpers.lookup_rcpts, RecipientKeys)

\* All three sender keys are present, and the flat and the regex list of the
\* recipients; a sender that only_senders lists and lookup_senders does not
\* hold is refused.
C8_Witness ==
    /\ rules # <<>>
    /\ \A i \in 1..3 : In(SenderKeys[i], rules)
    /\ ~In(RecipientKeys[1], rules) /\ In(RecipientKeys[2], rules) /\ In(RecipientKeys[3], rules)
    /\ helpers.lookup_senders.cls = "Lookup"
    /\ helpers.lookup_rcpts.cls = "DictLookup"
    /\ query.op = "is_sender_ok"
    /\ query.arg[1].sender \in Range(rules["only_senders"][1])
    /\ ~query.ret

(***************************************************************************)
(* Properties of the validators of build_smtpedge_validators.              *)
(***************************************************************************)
\* The latest handler call left the reply it was given as it was.
ReplyKept == handled.reply = handled.arg.reply

C16_Auth ==
    IF check_credentials(helpers, handled.arg.creds)
    THEN ReplyKept
    ELSE /\ handled.reply.code = "535"
         /\ handled.reply # handled.arg.reply

\* The sender check is made unless the SPF check has refused the sender.
C16_Mail ==
    "is_sender_ok" \in Range(handled.calls) =>
        IF is_sender_ok(helpers, handled.arg.session.auth, handled.arg.sender)
        THEN ReplyKept
        ELSE handled.reply =
                Reply("550", <<"5.7.1 Sender <", handled.arg.sender, "> Not allowed">>)

C16_Rcpt ==
    IF /\ helpers.lookup_rcpts # None
       /\ lookup_address(helpers.lookup_rcpts, handled.arg.rcpt) = <<>>
    THEN handled.reply =
            Reply("550", <<"5.7.1 Recipient <", handled.arg.rcpt, "> Not allowed">>)
    ELSE ReplyKept

C16_HaveData ==
    IF helpers.scanner # <<>> /\ handled.arg.is_spam
    THEN /\ handled.reply.code = "554"
         /\ handled.reply # handled.arg.reply
    ELSE ReplyKept

\* C16: no handler raises; handle_auth sets the reply to 535 iff
\* check_credentials is false, the sender check of handle_mail to 550 iff
\* is_sender_ok is false, handle_rcpt to 550 iff a recipient lookup is
\* configured and does not hold the recipient, handle_have_data to 554 iff a
\* scanner is configured and reports spam; otherwise the code and the message
\* of the reply are the ones the handler was given.
C16_ReplyOnlyOnFailure ==
    /\ handled.exc = NoExc
    /\ handled.op = "handle_auth" => C16_Auth
    /\ handled.op = "handle_mail" => C16_Mail
    /\ handled.op = "handle_rcpt" => C16_Rcpt
    /\ handled.op = "handle_have_data" => C16_HaveData

\* handle_rcpt refused a recipient, after it had accepted one and left a reply
\* with a code other than 250 as it was.
C16_Witness ==
    /\ handled.op = "handle_rcpt"
    /\ handled.reply.code = "550"
    /\ handled.exc = NoExc
    /\ memo.op = "handle_rcpt"
    /\ memo.arg.reply.code = "451"
    /\ memo.reply = memo.arg.reply

\* Every call of inner in a sequence of calls comes after a call of check,
\* which comes first.
ChecksFirst(calls, check, inner) ==
    /\ calls # <<>>
    /\ calls[1] = check
    /\ \A i \in DOMAIN calls : calls[i] = inner => i > 1

C17_Banner ==
    LET unwrapped == set_banner_message(Handling(helpers, handled.arg.reply)) IN
    IF helpers.dnsbl # <<>>
    THEN /\ ChecksFirst(handled.calls, "check_dnsbl", "set_banner_message")
         /\ IF handled.arg.listed
            THEN handled.reply.code = "520"
            ELSE /\ handled.reply = unwrapped.reply
                 /\ handled.calls = <<"check_dnsbl">> \o unwrapped.calls
    ELSE /\ handled.reply = unwrapped.reply
         /\ handled.calls = unwrapped.calls

C17_Mail ==
    LET unwrapped == handle_mail_unwrapped(Handling(helpers, handled.arg.reply),
                                           handled.arg.session, handled.arg.sender)
    IN
    IF helpers.reject_spf # <<>>
    THEN /\ ChecksFirst(handled.calls, "EnforceSpf.check", "is_sender_ok")
         /\ IF handled.arg.spf \in Range(helpers.reject_spf[1])
            THEN handled.reply.code = "550"
            ELSE /\ handled.reply = unwrapped.reply
                 /\ handled.calls = <<"EnforceSpf.check">> \o unwrapped.calls
    ELSE /\ handled.reply = unwrapped.reply
         /\ handled.calls = unwrapped.calls

\* C17: with dnsbl configured handle_banner makes the blocklist check first,
\* before set_banner_message, and a match gives code 520; with reject_spf
\* configured handle_mail makes the SPF check first, before is_sender_ok, and
\* a match gives code 550; without a match, and when dnsbl (resp. reject_spf)
\* is not configured, the reply and the calls are those of the handler without
\* its wrapper.
C17_WrapOrder ==
    /\ handled.op = "handle_banner" => C17_Banner
    /\ handled.op = "handle_mail" => C17_Mail

\* A listed address with a banner configured: the reply is the blocklist's,
\* after an address that is not listed was given the banner.
C17_Witness ==
    /\ handled.op = "handle_banner"
    /\ helpers.dnsbl # <<>>
    /\ helpers.banner # <<>>
    /\ handled.arg.listed
    /\ handled.reply.code = "520"
    /\ memo.op = "handle_banner"
    /\ memo.reply.message = helpers.banner[1]

\* C18: after any sequence of handler calls the RuleHelpers object is the one
\* that was built from the rules section, field by field, and a handler call
\* has the outcome that any earlier call with the same inputs had.
C18_ReadOnly ==
    /\ helpers = RuleHelpers(rules)
    /\ (memo.op = handled.op /\ memo.arg = handled.arg)
          => /\ memo.reply = handled.reply
             /\ memo.exc = handled.exc
             /\ memo.calls = handled.calls

\* The banner was sent twice, to the same effect.
C18_Witness ==
    /\ handled.op = "handle_banner"
    /\ memo.op = "handle_banner"
    /\ memo.arg = handled.arg
    /\ helpers.banner # <<>>
    /\ handled.reply.message = helpers.banner[1]
    /\ memo.reply = handled.reply

(***************************************************************************)
(* Properties of build_backoff_function.                                   *)
(***************************************************************************)
\* The number a value of maximum stands for.
NumberOf(value) ==
    IF value.cls = "int"
    THEN value.v
    ELSE CHOOSE n \in 0..(MaxMaximum + 1) : Decimal(n) = value.text

C9_Example ==
    (/\ NumberOf(retry[1].maximum[1]) = 3
     /\ retry[1].delay[1] = "x*2")
        => /\ attempt.attempts = <<2>> => attempt.ret = <<4>>
           /\ attempt.attempts = <<4>> => attempt.ret = <<>>

\* C9: the function built for a retry section with maximum M and delay d
\* returns None for attempts > M and d(attempts) for attempts <= M; with
\* maximum 3 and delay x*2 it returns 4 for 2 attempts and None for 4.
C9_BackoffBound ==
    (/\ attempt.attempts # <<>>
     /\ retry # <<>>
     /\ retry[1].maximum # <<>>
     /\ retry[1].delay # <<>>)
        => /\ LET M == NumberOf(retry[1].maximum[1])
                  attempts == attempt.attempts[1]
              IN attempt.ret = IF attempts > M
                               THEN <<>>
                               ELSE <<delay_func(retry[1].delay[1], attempts)>>
           /\ C9_Example

\* attempts = maximum: the delay is returned.
C9_Witness ==
    /\ retry # <<>>
    /\ retry[1].maximum = <<PyStr(<<"3">>)>>
    /\ retry[1].delay = <<"x*2">>
    /\ attempt.attempts = <<3>>
    /\ attempt.ret = <<6>>

\* C10: the function built for no retry section returns None for every
\* attempts >= 0 and every envelope.
C10_NoRetries ==
    (retry = <<>> /\ attempt.attempts # <<>>) => attempt.ret = <<>>

\* The first attempt, without a retry section.
C10_Witness ==
    /\ retry = <<>>
    /\ attempt.attempts = <<0>>
    /\ attempt.ret = <<>>
    /\ backoff_func.func = "no_retries"

(***************************************************************************)
(* Properties of add_queue_policies.                                       *)
(***************************************************************************)
\* The policies the call appended to the queue.
Appended ==
    SubSeq(policy_queue.policies, composed.mark + 1, Len(policy_queue.policies))

\* The class of the built-in policy of a type.
PolicyClass(type) ==
    CASE type = "add_date_header" -> "AddDateHeader"
      [] type = "add_messageid_header" -> "AddMessageIdHeader"
      [] type = "add_received_header" -> "AddReceivedHeader"
      [] type = "recipient_split" -> "RecipientSplit"
      [] type = "recipient_domain_split" -> "RecipientDomainSplit"
      [] type = "lookup" -> "LookupPolicy"
      [] type = "forward" -> "Forward"
      [] type = "spamassassin" -> "SpamAssassin"
      [] type = "add_dkim_header" -> "AddDKIMHeader"
      [] OTHER -> "(none)"

\* C11: when add_queue_policies completes, it has appended exactly one policy
\* per declared entry, the i-th policy appended being the built-in policy of
\* the i-th entry, after the policies the queue already had; so a signing
\* policy is the last of the chain iff add_dkim_header is the last entry.
C11_DeclaredOrder ==
    (composed.called /\ composed.exc = NoExc) =>
        /\ Len(policy_queue.policies) = composed.mark + Len(policy_section)
        /\ \A i \in DOMAIN policy_section :
              Appended[i].cls = PolicyClass(policy_section[i].type)
        /\ policy_section # <<>> =>
              (policy_queue.policies[Len(policy_queue.policies)].cls = "AddDKIMHeader"
                  <=> policy_section[Len(policy_section)].type = "add_dkim_header")

\* The composition of a policy list raises a configuration error.
Unresolvable(policy_options) ==
    add_queue_policies(NewQueue, policy_options).exc # NoExc

\* C12: an edge is started only if the policy list of its queue composes
\* without a configuration error: with an unresolvable lookup entry in the
\* list the error is raised, and the startup ended, before the edge starts.
C12_FailFast ==
    \A e \in DOMAIN edges :
        ~Unresolvable(cfg.queue[cfg.edge[e].queue[1]].policies)

\* C13: add_queue_policies raises a configuration error when an entry of the
\* list has a type that is not a built-in policy type.
C13_UnknownTypeFatal ==
    (composed.called /\ \E i \in DOMAIN policy_section :
                            policy_section[i].type \notin PolicyTypes)
        => composed.exc # NoExc

(***************************************************************************)
(* Properties of build_backoff_function, continued.                        *)
(***************************************************************************)
\* C19: for a retry section that is given, an omitted maximum counts as 0 and
\* an omitted delay as 300: with both omitted the function returns 300 for 0
\* attempts and None for more; with only maximum M given it returns 300 for
\* every attempts <= M and None above; with only delay d given it returns d(0)
\* for 0 attempts and None for more.
C19_Defaults ==
    (retry # <<>> /\ attempt.attempts # <<>>) =>
        LET attempts == attempt.attempts[1]
            M == IF retry[1].maximum = <<>> THEN 0 ELSE NumberOf(retry[1].maximum[1])
        IN /\ retry[1].delay = <<>>
                 => attempt.ret = IF attempts <= M THEN <<300>> ELSE <<>>
           /\ (retry[1].maximum = <<>> /\ retry[1].delay # <<>>)
                 => attempt.ret = IF attempts = 0
                                  THEN <<delay_func(retry[1].delay[1], 0)>>
                                  ELSE <<>>

====
